---- MODULE Spec2Model ----
(***************************************************************************)
(* Playback and preload engine of the wavelength audio feed.               *)
(*                                                                         *)
(* AudioFeed (src/unnamed/part_000, lines 1-489) owns the track list, the  *)
(* play order, the play/autoplay intents and the preload cache with its    *)
(* serial queue.  AudioVisualizer (same file, lines 490-852) owns the one  *)
(* audio graph of the current track.  JavaScript runs one task at a time,  *)
(* so every action below is one task (an event handler, a timer callback,  *)
(* a React commit with its effects) together with the microtasks it        *)
(* leaves behind; a promise that waits for a media event, a play request   *)
(* or a context resume is a position that a later action continues.        *)
(***************************************************************************)
EXTENDS Integers, Sequences, FiniteSets, TLC

(***************************************************************************)
(* Bounds of the model.                                                    *)
(***************************************************************************)
NumUrls == 4          \* distinct track URLs
MaxAudio == 5         \* audio elements that can exist at once
MaxTimers == 2        \* pending setTimeout callbacks that are told apart
NumTracks == 2        \* tracks the listing returns at most
MaxCtx == 2           \* audio contexts that can be open at once
MaxStale == 1         \* superseded closures with a step or a listener pending
MaxRapid == 2         \* track changes in a row that are counted
MaxFrames == 2        \* pending animation-frame callbacks that are counted
NumFeedTracks == 3    \* tracks the listing returns at most, for the feed taken alone

(***************************************************************************)
(* URLs.  A URL is a string; "" is the empty string that `!url` rejects    *)
(* and PlaceholderUrl stands for every URL that contains                    *)
(* '.emptyFolderPlaceholder'.                                              *)
(***************************************************************************)
UrlPool == <<"a.webm", "b.webm", "c.webm", "d.webm", "e.webm", "f.webm">>
TrackUrls == {UrlPool[i] : i \in 1..NumUrls}
EmptyUrl == ""
PlaceholderUrl == ".emptyFolderPlaceholder"
WarmArgs == TrackUrls \cup {EmptyUrl, PlaceholderUrl}

\* url.includes('.emptyFolderPlaceholder')
IncludesPlaceholder(url) == url = PlaceholderUrl

maxPreloadCount == 3

VARIABLES
  audios,            \* the audio elements that exist: id -> element
  preloadedAudios,   \* preloadedAudiosRef.current: the Map, in insertion order
  preloadQueue,      \* preloadQueueRef.current
  isPreloading,      \* isPreloadingRef.current
  workers,           \* processPreloadQueue calls between their await and their finally
  pendingTimers,     \* setTimeout(() => processPreloadQueue(), 1000) not yet fired
  last,              \* history: the task that ran last, with what it saw before it ran
  \* AudioFeed state
  snippets,          \* the track list: the URL of each track
  liked,             \* the track list: the liked flag of each track
  playOrder,         \* the shuffled indices (0-based, as in the code)
  currentIndex,      \* position in playOrder
  isLoading,
  isPlaying,         \* play intent
  autoplayEnabled,   \* autoplay intent
  fetchPending,      \* fetchSnippets awaits the listing
  \* AudioVisualizer
  props,             \* the props of the last render (mounted = FALSE: not rendered)
  audioRef,          \* audioRef.current: an element id, 0 for null
  audioContextRef,   \* audioContextRef.current: a context id, 0 for undefined
  analyserRef,       \* analyserRef.current: the context whose analyser it is, 0 for undefined
  sourceNodeRef,     \* sourceNodeRef.current: <<element, context>>, <<>> for undefined
  lastUrlRef,
  contexts,          \* the audio contexts: id -> "none" | "suspended" | "running"
  sourceNodes,       \* the source nodes created and not disconnected
  analyserNodes,     \* the analysers created and not disconnected
  setup,             \* the setup effect's current closure: where setupAudio stands, retryCount
  staleResume,       \* superseded closures that still await audioContext.resume()
  staleGestureResume, \* superseded resumePlayback calls that still await resume()
  playPauseResume,   \* play/pause effect calls that still await audioContext.resume()
  staleListeners,    \* resumePlayback listeners of superseded closures still on window
  rapid,             \* history: track changes in a row that cut an acquisition short
  pendingFrames,     \* animation-frame callbacks requested and neither run nor cancelled
  animationRef       \* animationRef.current: "pending" when it names one of them, else "none"

preloadVars == <<preloadedAudios, preloadQueue, isPreloading, workers, pendingTimers>>
feedVars == <<snippets, liked, playOrder, currentIndex, isLoading, isPlaying,
              autoplayEnabled, fetchPending>>
vizVars == <<props, audioRef, audioContextRef, analyserRef, sourceNodeRef, lastUrlRef,
             contexts, sourceNodes, analyserNodes, setup, staleResume, staleGestureResume,
             playPauseResume, staleListeners, rapid, pendingFrames, animationRef>>
vars == <<audios, preloadedAudios, preloadQueue, isPreloading, workers, pendingTimers, last,
          snippets, liked, playOrder, currentIndex, isLoading, isPlaying, autoplayEnabled,
          fetchPending, props, audioRef, audioContextRef, analyserRef, sourceNodeRef,
          lastUrlRef, contexts, sourceNodes, analyserNodes, setup, staleResume,
          staleGestureResume, playPauseResume, staleListeners, rapid, pendingFrames,
          animationRef>>

(***************************************************************************)
(* Audio elements.  src is <<>> when empty, <<u>> when it is the URL u and *)
(* <<u, "_">> when it is u with the cache-busting query appended.  An      *)
(* element with an empty src that nothing refers to is garbage, and its id *)
(* is handed out again by the next `new Audio()`.                          *)
(***************************************************************************)
AudioIds == 1..MaxAudio
NoAudioId == 0
\* new Audio()
FreshAudio == [src |-> <<>>, paused |-> TRUE, loop |-> FALSE, node |-> FALSE]

Min(a, b) == IF a < b THEN a ELSE b
SeqRange(s) == {s[i] : i \in 1..Len(s)}

(***************************************************************************)
(* Map<string, PreloadedAudio>: the set of its entries                     *)
(* [url, audio, loaded, error].  The code never iterates the Map, so the   *)
(* insertion order is left out; set(k, v) replaces the entry of the key.   *)
(***************************************************************************)
MapSize(m) == Cardinality(m)
MapHas(m, k) == \E e \in m : e.url = k
MapGet(m, k) == CHOOSE e \in m : e.url = k
MapDelete(m, k) == {e \in m : e.url # k}
MapSet(m, e) == MapDelete(m, e.url) \cup {e}

\* The ids `new Audio()` can return: elements with no source that neither the
\* cache m, nor a worker in w, nor anything in `held` refers to.
FreeIds(a, m, w, held) ==
  {i \in AudioIds : /\ a[i].src = <<>>
                    /\ i \notin {e.audio : e \in m}
                    /\ i \notin {w[k].audio : k \in 1..Len(w)}
                    /\ i \notin held}

\* new Audio(): which id names the new element is immaterial; the one asked
\* for is taken when it is free, and the smallest free one otherwise.
NewAudioId(a, m, w, held, pref) ==
  IF pref \in FreeIds(a, m, w, held) THEN pref
  ELSE CHOOSE i \in FreeIds(a, m, w, held) : \A j \in FreeIds(a, m, w, held) : i <= j

UrlIndex(url) == CHOOSE i \in 1..Len(UrlPool) : UrlPool[i] = url

\* What the rest of the page holds of the audio elements (the playback
\* controller's audioRef).
HeldElsewhere == {audioRef} \ {NoAudioId}

(***************************************************************************)
(* Preload cache manager: preloadAudio, processPreloadQueue, queuePreload. *)
(***************************************************************************)
PreloadState ==
  [audios |-> audios, cache |-> preloadedAudios, queue |-> preloadQueue,
   busy |-> isPreloading, workers |-> workers, timers |-> pendingTimers]

SetPreloadState(S) ==
  /\ UNCHANGED <<feedVars, vizVars>>
  /\ audios' = S.audios
  /\ preloadedAudios' = S.cache
  /\ preloadQueue' = S.queue
  /\ isPreloading' = S.busy
  /\ workers' = S.workers
  /\ pendingTimers' = S.timers

\* if (!url || url.includes('.emptyFolderPlaceholder')) return;
Rejected(url) == url = EmptyUrl \/ IncludesPlaceholder(url)

\* Mutant: the capacity test is off by one (> for >=).
AtCapacityOffByOne(m) == MapSize(m) > maxPreloadCount

\* if (preloadedAudiosRef.current.size >= maxPreloadCount) return;
AtCapacity(m) == MapSize(m) >= maxPreloadCount

\* has(url) with an entry that is not flagged errored: 'Already preloaded or in progress'
AlreadyPreloaded(m, url) == MapHas(m, url) /\ ~MapGet(m, url).error

\* Mutant: preloadAudio without its capacity test.
PreloadSkipsNoCapacity(m, url) == Rejected(url) \/ AlreadyPreloaded(m, url)

\* preloadAudio(url) returns before it creates an element.
PreloadSkips(m, url) == Rejected(url) \/ AtCapacity(m) \/ AlreadyPreloaded(m, url)

\* preloadAudio(url) up to its await: the early returns, the removal of an
\* errored entry, the new element and entry, and the start of the load.
preloadAudio(S, url) ==
  IF PreloadSkips(S.cache, url)
  THEN [S EXCEPT !.workers = Append(@, [url |-> url, state |-> "returned",
                                         audio |-> NoAudioId, retry |-> FALSE])]
  ELSE LET retry == MapHas(S.cache, url)
           m1 == IF retry THEN MapDelete(S.cache, url) ELSE S.cache
           id == NewAudioId(S.audios, m1, S.workers, HeldElsewhere, UrlIndex(url))
       IN [S EXCEPT
             !.cache = MapSet(m1, [url |-> url, audio |-> id, loaded |-> FALSE, error |-> FALSE]),
             !.audios = [@ EXCEPT ![id] = [FreshAudio EXCEPT !.src = <<url>>]],
             !.workers = Append(@, [url |-> url, state |-> "loading",
                                    audio |-> id, retry |-> retry])]

\* Mutant: processPreloadQueue does not look at isPreloadingRef.
WorkerBusyIgnoringFlag(busy, queue) == queue = <<>>

\* if (isPreloadingRef.current || preloadQueueRef.current.length === 0) return;
WorkerBusy(busy, queue) == busy \/ queue = <<>>

\* processPreloadQueue() up to its await.
processPreloadQueue(S) ==
  IF WorkerBusy(S.busy, S.queue) THEN S
  ELSE preloadAudio([S EXCEPT !.busy = TRUE], Head(S.queue))

\* An element is there for the preparation processPreloadQueue(S) would start.
CanProcess(S) ==
  IF WorkerBusy(S.busy, S.queue) THEN TRUE
  ELSE IF PreloadSkips(S.cache, Head(S.queue)) THEN TRUE
  ELSE LET url == Head(S.queue)
           m1 == IF MapHas(S.cache, url) THEN MapDelete(S.cache, url) ELSE S.cache
       IN FreeIds(S.audios, m1, S.workers, HeldElsewhere) # {}

\* Mutant: queuePreload does not look for the URL in the queue.
ShouldQueueIgnoringQueue(queue, m, url) == ~MapHas(m, url)

\* !preloadQueueRef.current.includes(url) && !preloadedAudiosRef.current.has(url)
ShouldQueue(queue, m, url) == url \notin SeqRange(queue) /\ ~MapHas(m, url)

\* queuePreload(url)
queuePreload(S, url) ==
  IF Rejected(url) THEN S
  ELSE IF ShouldQueue(S.queue, S.cache, url)
       THEN processPreloadQueue([S EXCEPT !.queue = Append(@, url)])
       ELSE S

\* finally { isPreloadingRef.current = false; if (queue.length > 0) setTimeout(...) }
WorkerFinally(S) ==
  [S EXCEPT !.busy = FALSE,
            !.timers = IF S.queue # <<>> THEN Min(@ + 1, MaxTimers) ELSE @]

Shift(q) == IF q = <<>> THEN q ELSE Tail(q)
RemoveAt(s, i) == SubSeq(s, 1, i - 1) \o SubSeq(s, i + 1, Len(s))

\* await preloadAudio(url) resolved: preloadQueueRef.current.shift(), then finally.
WorkerResolved(S, i) ==
  WorkerFinally([S EXCEPT !.workers = RemoveAt(@, i), !.queue = Shift(@)])

\* Mutant: the catch leaves the failed URL at the head of the queue.
RequeueFailedAtHead(q) == q

\* Mutant: the catch pushes the failed URL without shifting it.
RequeueFailedNoShift(q) == IF q = <<>> THEN q ELSE Append(q, Head(q))

\* await preloadAudio(url) threw: the head is shifted and pushed to the tail, then finally.
RequeueFailed(q) == IF q = <<>> THEN q ELSE Append(Tail(q), Head(q))

WorkerRejected(S, i) ==
  WorkerFinally([S EXCEPT !.workers = RemoveAt(@, i), !.queue = RequeueFailed(@)])

\* onCanPlay: the entry of the URL, if there is one, is marked loaded.
OnCanPlay(S, url) ==
  IF MapHas(S.cache, url)
  THEN [S EXCEPT !.cache = MapSet(@, [MapGet(@, url) EXCEPT !.loaded = TRUE])]
  ELSE S

\* onError and the catch of preloadAudio: the entry is flagged errored and its
\* element is emptied (entry.audio.src = ''; entry.audio.load()).
OnError(S, url) ==
  IF MapHas(S.cache, url)
  THEN LET e == MapGet(S.cache, url)
       IN [S EXCEPT !.cache = MapSet(@, [e EXCEPT !.error = TRUE]),
                    !.audios = [@ EXCEPT ![e.audio].src = <<>>]]
  ELSE S

\* A worker whose preloadAudio returned at once continues in the microtasks of
\* the running task: no timer and no media event comes before it.
MicrotaskPending == \E i \in 1..Len(workers) : workers[i].state = "returned"

NoPre == [full |-> FALSE, cached |-> FALSE, errored |-> FALSE, queued |-> FALSE, retry |-> FALSE]
PreOf(url) ==
  [full |-> AtCapacity(preloadedAudios),
   cached |-> MapHas(preloadedAudios, url),
   errored |-> MapHas(preloadedAudios, url) /\ MapGet(preloadedAudios, url).error,
   queued |-> url \in SeqRange(preloadQueue),
   retry |-> FALSE]

\* warm(url): the page calls queuePreload(url).
Warm(url) ==
  /\ IF Rejected(url) \/ ~ShouldQueue(preloadQueue, preloadedAudios, url) THEN TRUE
     ELSE CanProcess([PreloadState EXCEPT !.queue = Append(@, url)])
  /\ SetPreloadState(queuePreload(PreloadState, url))
  /\ last' = [op |-> "queuePreload", url |-> url, pre |-> PreOf(url)]

\* The microtask after preloadAudio returned without preparing anything.
PreloadReturned(i) ==
  /\ workers[i].state = "returned"
  /\ SetPreloadState(WorkerResolved(PreloadState, i))
  /\ last' = [op |-> "preloadReturned", url |-> workers[i].url, pre |-> NoPre]

\* 'canplaythrough' on the element a worker is loading, which has a source.
PreloadCanPlay(i) ==
  /\ workers[i].state = "loading"
  /\ audios[workers[i].audio].src # <<>>
  /\ ~MicrotaskPending
  /\ SetPreloadState(WorkerResolved(OnCanPlay(PreloadState, workers[i].url), i))
  /\ last' = [op |-> "preloadCanPlay", url |-> workers[i].url, pre |-> NoPre]

\* 'error' on the element a worker is loading.
PreloadError(i) ==
  /\ workers[i].state = "loading"
  /\ ~MicrotaskPending
  /\ SetPreloadState(WorkerRejected(OnError(PreloadState, workers[i].url), i))
  /\ last' = [op |-> "preloadError", url |-> workers[i].url,
               pre |-> [NoPre EXCEPT !.retry = workers[i].retry]]

\* setTimeout(() => processPreloadQueue(), 1000) fires.
PreloadTimer ==
  /\ pendingTimers > 0
  /\ ~MicrotaskPending
  /\ CanProcess([PreloadState EXCEPT !.timers = @ - 1])
  /\ SetPreloadState(processPreloadQueue([PreloadState EXCEPT !.timers = @ - 1]))
  /\ last' = [op |-> "preloadTimer", url |-> EmptyUrl, pre |-> NoPre]

NoProps ==
  [mounted |-> FALSE, audioUrl |-> EmptyUrl, isPlaying |-> FALSE,
   preloadedAudio |-> NoAudioId, autoplayEnabled |-> FALSE, onEnded |-> <<>>]
NoNode == <<>>
CtxIds == 1..MaxCtx
NoCtx == 0

Init ==
  /\ snippets = <<>>
  /\ liked = <<>>
  /\ playOrder = <<>>
  /\ currentIndex = 0
  /\ isLoading = TRUE
  /\ isPlaying = FALSE
  /\ autoplayEnabled = FALSE
  /\ fetchPending = TRUE
  /\ props = NoProps
  /\ audioRef = NoAudioId
  /\ audioContextRef = NoCtx
  /\ analyserRef = NoCtx
  /\ sourceNodeRef = NoNode
  /\ lastUrlRef = EmptyUrl
  /\ contexts = [c \in CtxIds |-> "none"]
  /\ sourceNodes = {}
  /\ analyserNodes = {}
  /\ setup = [pc |-> "idle", retryCount |-> 0]
  /\ staleResume = 0
  /\ staleGestureResume = 0
  /\ playPauseResume = 0
  /\ staleListeners = 0
  /\ rapid = 0
  /\ pendingFrames = 0
  /\ animationRef = "none"
  /\ audios = [i \in AudioIds |-> FreshAudio]
  /\ preloadedAudios = {}
  /\ preloadQueue = <<>>
  /\ isPreloading = FALSE
  /\ workers = <<>>
  /\ pendingTimers = 0
  /\ last = [op |-> "init", url |-> EmptyUrl, pre |-> NoPre]

NextPreload ==
  \/ \E url \in WarmArgs : Warm(url)
  \/ \E i \in 1..Len(workers) : PreloadReturned(i)
  \/ \E i \in 1..Len(workers) : PreloadCanPlay(i)
  \/ \E i \in 1..Len(workers) : PreloadError(i)
  \/ PreloadTimer

SpecPreload == Init /\ [][NextPreload]_vars

(***************************************************************************)
(* The cache manager with one URL whose preparation always fails and       *)
(* healthy URLs whose preparation always succeeds.  Every preparation      *)
(* ends, every microtask runs and every timer fires (weak fairness); the   *)
(* page warms what it likes when it likes.                                 *)
(***************************************************************************)
BrokenUrl == UrlPool[1]
HealthyUrls == {UrlPool[2], UrlPool[3], UrlPool[4]}

PreloadFails(i) == workers[i].url = BrokenUrl /\ PreloadError(i)
PreloadSucceeds(i) == workers[i].url \in HealthyUrls /\ PreloadCanPlay(i)

NextStarve ==
  \/ \E url \in {BrokenUrl} \cup HealthyUrls : Warm(url)
  \/ \E i \in 1..Len(workers) : PreloadReturned(i)
  \/ \E i \in 1..Len(workers) : PreloadSucceeds(i)
  \/ \E i \in 1..Len(workers) : PreloadFails(i)
  \/ PreloadTimer

SpecStarve ==
  /\ Init
  /\ [][NextStarve]_vars
  /\ WF_vars(\E i \in 1..Len(workers) : PreloadReturned(i))
  /\ WF_vars(\E i \in 1..Len(workers) : PreloadSucceeds(i))
  /\ WF_vars(\E i \in 1..Len(workers) : PreloadFails(i))
  /\ WF_vars(PreloadTimer)

(***************************************************************************)
(* AudioVisualizer.  Its effects and the steps of setupAudio are operators *)
(* over a record V of the component's refs and of the browser objects they *)
(* refer to, so that one task can run several of them in a row.  V.stuck   *)
(* is set when a step needs more objects than the model holds.             *)
(***************************************************************************)
maxRetries == 3

VizState ==
  [audios |-> audios, contexts |-> contexts, sourceNodes |-> sourceNodes,
   analyserNodes |-> analyserNodes, audioRef |-> audioRef,
   audioContextRef |-> audioContextRef, analyserRef |-> analyserRef,
   sourceNodeRef |-> sourceNodeRef, lastUrlRef |-> lastUrlRef, setup |-> setup,
   staleResume |-> staleResume, staleGestureResume |-> staleGestureResume,
   playPauseResume |-> playPauseResume,
   staleListeners |-> staleListeners, rapid |-> rapid,
   pendingFrames |-> pendingFrames, animationRef |-> animationRef,
   stuck |-> FALSE]

SetVizState(V) ==
  /\ ~V.stuck
  /\ audios' = V.audios
  /\ contexts' = V.contexts
  /\ sourceNodes' = V.sourceNodes
  /\ analyserNodes' = V.analyserNodes
  /\ audioRef' = V.audioRef
  /\ audioContextRef' = V.audioContextRef
  /\ analyserRef' = V.analyserRef
  /\ sourceNodeRef' = V.sourceNodeRef
  /\ lastUrlRef' = V.lastUrlRef
  /\ setup' = V.setup
  /\ staleResume' = V.staleResume
  /\ staleGestureResume' = V.staleGestureResume
  /\ playPauseResume' = V.playPauseResume
  /\ staleListeners' = V.staleListeners
  /\ rapid' = V.rapid
  /\ pendingFrames' = V.pendingFrames
  /\ animationRef' = V.animationRef

\* What the browser decides within a task: whether a new context starts
\* suspended, whether readyState is already 4, whether play() is allowed.
Envs == [suspended : BOOLEAN, ready : BOOLEAN, allowed : BOOLEAN]
NoEnv == [suspended |-> FALSE, ready |-> FALSE, allowed |-> FALSE]
\* A render asks the browser something only when it finds a loaded element,
\* which is one of the cache.
RenderEnvs == IF preloadedAudios = {} THEN {NoEnv} ELSE Envs
GraphEnvs == {e \in Envs : ~e.ready}
PlayEnvs == {e \in Envs : ~e.ready /\ ~e.suspended}

CachedAudioIds == {e.audio : e \in preloadedAudios}

\* pause(); src = ''; load() on an element the controller lets go of.  An
\* element nothing refers to any more is garbage, hence as good as new.
ReleasedAudio(el, id) ==
  IF id \in CachedAudioIds THEN [el EXCEPT !.paused = TRUE, !.src = <<>>]
  ELSE FreshAudio

\* F applied to the value of e, which is computed once.
Then(e, F(_)) == CHOOSE r \in {F(x) : x \in {e}} : TRUE

\* if (sourceNodeRef.current) { disconnect(); sourceNodeRef.current = undefined }
cleanupSourceNode(V) ==
  IF V.sourceNodeRef # NoNode
  THEN [V EXCEPT !.sourceNodes = @ \ {V.sourceNodeRef}, !.sourceNodeRef = NoNode]
  ELSE V

\* if (audioRef.current) { pause(); src = ''; load(); audioRef.current = null }
cleanupElement(V) ==
  IF V.audioRef # NoAudioId
  THEN [V EXCEPT !.audios[V.audioRef] = ReleasedAudio(@, V.audioRef),
                 !.audioRef = NoAudioId]
  ELSE V

\* Mutant: cleanupAudio forgets the audio context without closing it.
cleanupContextLeaking(V) == [V EXCEPT !.audioContextRef = NoCtx]

\* if (audioContextRef.current) { close(); audioContextRef.current = undefined }
cleanupContext(V) ==
  IF V.audioContextRef # NoCtx
  THEN [V EXCEPT !.contexts[V.audioContextRef] = "none", !.audioContextRef = NoCtx]
  ELSE V

\* if (analyserRef.current) { disconnect(); analyserRef.current = undefined }
cleanupAnalyser(V) ==
  IF V.analyserRef # NoCtx
  THEN [V EXCEPT !.analyserNodes = @ \ {V.analyserRef}, !.analyserRef = NoCtx]
  ELSE V

\* Mutant: cleanupAudio does not cancel the animation frame.
cleanupFrameNotCancelling(V) == [V EXCEPT !.animationRef = "none"]

\* if (animationRef.current) cancelAnimationFrame(animationRef.current): the
\* callback the ref names is cancelled when it is pending; an id whose
\* callback ran or was cancelled before cancels nothing.
cleanupFrame(V) ==
  IF V.animationRef = "pending"
  THEN [V EXCEPT !.pendingFrames = @ - 1, !.animationRef = "none"]
  ELSE V

\* cleanupAudio()
cleanupAudio(V) ==
  Then(Then(Then(Then(Then(V, cleanupSourceNode), cleanupElement), cleanupContext),
            cleanupAnalyser), cleanupFrame)

\* Mutant: draw pauses the element.
drawPausing(V) ==
  IF V.audioRef # NoAudioId THEN [V EXCEPT !.audios[V.audioRef].paused = TRUE] ELSE V

\* draw(): it reads canvasRef and analyserRef and paints; what it writes,
\* the canvas, blackHoleRadiusRef and gradientCenterRef, nothing else reads.
draw(V) == V

\* animate(): draw(); animationRef.current = requestAnimationFrame(animate).
animate(V) ==
  [draw(V) EXCEPT !.pendingFrames = Min(@ + 1, MaxFrames), !.animationRef = "pending"]

NewCtxId(c) ==
  IF \A i \in CtxIds : c[i] # "none" THEN NoCtx
  ELSE CHOOSE i \in CtxIds : c[i] = "none" /\ \A j \in CtxIds : c[j] = "none" => i <= j

\* `${audioUrl}?_=${Date.now()}`
CacheBuster(url) == <<url, "_">>

\* if (!audioContextRef.current) audioContextRef.current = new AudioContext(...)
createContext(V, env) ==
  IF V.audioContextRef # NoCtx THEN V
  ELSE IF NewCtxId(V.contexts) = NoCtx THEN [V EXCEPT !.stuck = TRUE]
  ELSE [V EXCEPT !.audioContextRef = NewCtxId(V.contexts),
                 !.contexts[NewCtxId(V.contexts)] =
                    IF env.suspended THEN "suspended" ELSE "running"]

\* if (!analyserRef.current && audioContextRef.current) createAnalyser()
createAnalyser(V) ==
  IF V.analyserRef = NoCtx /\ V.audioContextRef # NoCtx
  THEN [V EXCEPT !.analyserRef = V.audioContextRef,
                 !.analyserNodes = @ \cup {V.audioContextRef}]
  ELSE V

\* Lines 733-737.  createMediaElementSource throws on an element that was
\* given a source node before; setup.pc = "threw" says so.
createSourceNode(V) ==
  IF V.sourceNodeRef = NoNode /\ V.audioRef # NoAudioId
     /\ V.audioContextRef # NoCtx /\ V.analyserRef # NoCtx
  THEN IF V.audios[V.audioRef].node
       THEN [V EXCEPT !.setup.pc = "threw"]
       ELSE [V EXCEPT !.sourceNodeRef = <<V.audioRef, V.audioContextRef>>,
                      !.sourceNodes = @ \cup {<<V.audioRef, V.audioContextRef>>},
                      !.audios[V.audioRef].node = TRUE]
  ELSE V

\* Lines 721-737: the context, the analyser and the source node, each made
\* when its ref is empty.
createGraph(V, env) ==
  Then(Then(Then(V, LAMBDA x : createContext(x, env)), createAnalyser), createSourceNode)

\* audioRef.current.play() and what the await of its promise sees at once:
\* a refusal (NotAllowedError) leaves the element paused and registers
\* resumePlayback on window; otherwise the element plays and the promise
\* is pending.
play(V, env) ==
  IF env.allowed
  THEN [V EXCEPT !.audios[V.audioRef].paused = FALSE, !.setup.pc = "play"]
  ELSE [V EXCEPT !.setup.pc = "gesture"]

\* Lines 743-788 up to the first await.
startPlayback(V, P, env) ==
  IF P.isPlaying /\ V.audioRef # NoAudioId
  THEN IF V.audioContextRef # NoCtx /\ V.contexts[V.audioContextRef] = "suspended"
       THEN [V EXCEPT !.setup.pc = "resume"]
       ELSE play(V, env)
  ELSE IF V.audioRef # NoAudioId
       THEN [V EXCEPT !.audios[V.audioRef].paused = TRUE, !.setup.pc = "ready"]
       ELSE [V EXCEPT !.setup.pc = "ready"]

RECURSIVE setupAudio(_, _, _)

\* retryCount++; cleanupAudio(); await setupAudio()
retry(V, P, env) ==
  Then(cleanupAudio([V EXCEPT !.setup.retryCount = @ + 1]),
       LAMBDA x : setupAudio(x, P, env))

\* The play error branch has no else: nothing is done when the retries are
\* used up.
playGaveUp(V) == [V EXCEPT !.setup.pc = "gaveUp"]

\* The catch of lines 789-802, run by the closure that is current.
setupFailed(V, P, env) ==
  IF V.setup.retryCount < maxRetries
  THEN retry(V, P, env)
  ELSE [cleanupAudio(V) EXCEPT !.setup.pc = "gaveUp"]

\* The catch of lines 758-785 for an error other than NotAllowedError, run
\* by the closure that is current.
playFailed(V, P, env) ==
  IF V.setup.retryCount < maxRetries
  THEN retry(V, P, env)
  ELSE playGaveUp(V)

\* Lines 720-788, after the element has loaded.
afterGraph(G, P, env) ==
  IF G.stuck THEN G
  ELSE IF G.setup.pc = "threw" THEN setupFailed(G, P, env)
  ELSE Then(Then(G, animate), LAMBDA x : startPlayback(x, P, env))

afterLoad(V, P, env) ==
  Then(createGraph(V, env), LAMBDA G : afterGraph(G, P, env))

\* Mutant: an element of the cache is taken as it is.
createElementAsCached(V, P) ==
  IF V.audioRef # NoAudioId THEN V
  ELSE IF P.preloadedAudio # NoAudioId
  THEN [V EXCEPT !.audioRef = P.preloadedAudio]
  ELSE IF FreeIds(V.audios, preloadedAudios, workers, {}) = {}
  THEN [V EXCEPT !.stuck = TRUE]
  ELSE [V EXCEPT
          !.audioRef = NewAudioId(V.audios, preloadedAudios, workers, {}, MaxAudio),
          !.audios[NewAudioId(V.audios, preloadedAudios, workers, {}, MaxAudio)] =
             [FreshAudio EXCEPT !.loop = ~P.autoplayEnabled]]

\* Lines 644-650: audioRef.current = preloadedAudio || new Audio().
createElement(V, P) ==
  IF V.audioRef # NoAudioId THEN V
  ELSE IF P.preloadedAudio # NoAudioId
  THEN [V EXCEPT !.audioRef = P.preloadedAudio,
                 !.audios[P.preloadedAudio].loop = ~P.autoplayEnabled]
  ELSE IF FreeIds(V.audios, preloadedAudios, workers, {}) = {}
  THEN [V EXCEPT !.stuck = TRUE]
  ELSE [V EXCEPT
          !.audioRef = NewAudioId(V.audios, preloadedAudios, workers, {}, MaxAudio),
          !.audios[NewAudioId(V.audios, preloadedAudios, workers, {}, MaxAudio)] =
             [FreshAudio EXCEPT !.loop = ~P.autoplayEnabled]]

\* Lines 652-718 up to the first await, and what follows them when the
\* element has the URL already.
loadElement(V, P, env) ==
  IF V.stuck THEN V
  ELSE IF V.audios[V.audioRef].src # <<P.audioUrl>>
  THEN [V EXCEPT !.audios[V.audioRef].src = CacheBuster(P.audioUrl),
                 !.setup.pc = "metadata"]
  ELSE afterLoad(V, P, env)

\* setupAudio() up to its first await, for the props P its closure captured.
setupAudio(V, P, env) ==
  Then(Then(V, LAMBDA x : createElement(x, P)), LAMBDA x : loadElement(x, P, env))

Unfinished == {"metadata", "buffer", "resume", "play"}
AwaitsGesture == {"gesture", "gestureResume", "gesturePlay"}

\* A closure is superseded: what it still awaits stays pending, and so do its
\* listeners.  Beyond MaxStale superseded closures that have something
\* pending or registered the step is left out of the model.
supersede(V) ==
  [V EXCEPT
     !.staleResume = IF V.setup.pc = "resume" THEN @ + 1 ELSE @,
     !.staleGestureResume = IF V.setup.pc = "gestureResume" THEN @ + 1 ELSE @,
     !.staleListeners = IF V.setup.pc \in AwaitsGesture THEN @ + 1 ELSE @,
     !.stuck = /\ V.setup.pc \in {"resume"} \cup AwaitsGesture
               /\ V.staleResume + V.staleListeners >= MaxStale,
     !.setup = [pc |-> "idle", retryCount |-> 0]]

\* The cleanup of the setup effect: isCurrentSetup = false; cleanupAudio().
setupCleanup(V) == Then(Then(V, supersede), cleanupAudio)

\* The body of the setup effect: a new closure with retryCount = 0.
setupEffect(V, P, env) ==
  IF V.stuck THEN V
  ELSE setupAudio([V EXCEPT !.setup = [pc |-> "idle", retryCount |-> 0]], P, env)

\* The track-change effect.
trackChangeEffect(V, P) ==
  IF P.audioUrl # V.lastUrlRef
  THEN [cleanupAudio(V) EXCEPT !.lastUrlRef = P.audioUrl]
  ELSE V

\* The play/pause effect up to its first await.  It finds both refs set
\* only when the setup effect before it found the element loaded already,
\* which takes an element of the preload cache.
playPauseEffect(V, P) ==
  IF V.stuck \/ V.audioRef = NoAudioId \/ V.audioContextRef = NoCtx THEN V
  ELSE IF P.isPlaying
       THEN [V EXCEPT !.playPauseResume = @ + 1, !.stuck = V.playPauseResume >= MaxStale]
       ELSE [V EXCEPT !.audios[V.audioRef].paused = TRUE]

SetupDeps(P) == <<P.audioUrl, P.preloadedAudio, P.onEnded, P.isPlaying, P.autoplayEnabled>>

\* History: the track changes in a row that cut an acquisition short.
countRapid(V, P0, P1) ==
  IF P0.audioUrl # P1.audioUrl
  THEN [V EXCEPT !.rapid = IF V.setup.pc \in Unfinished THEN Min(@ + 1, MaxRapid) ELSE 0]
  ELSE IF SetupDeps(P0) # SetupDeps(P1) THEN [V EXCEPT !.rapid = 0]
  ELSE V

\* The component is rendered for the first time.
mount(V, P, env) ==
  Then(Then(Then(V, LAMBDA x : trackChangeEffect(x, P)),
            LAMBDA x : setupEffect(x, P, env)),
       LAMBDA x : playPauseEffect(x, P))

\* The component is rendered again: the cleanups of the effects whose
\* dependencies changed run first, then the effects in the order of their
\* declaration.
update(V, P0, P1, env) ==
  Then(Then(Then(Then(Then(V,
       LAMBDA x : countRapid(x, P0, P1)),
       LAMBDA x : IF SetupDeps(P0) # SetupDeps(P1) THEN setupCleanup(x) ELSE x),
       LAMBDA x : IF P0.audioUrl # P1.audioUrl THEN trackChangeEffect(x, P1) ELSE x),
       LAMBDA x : IF SetupDeps(P0) # SetupDeps(P1) THEN setupEffect(x, P1, env) ELSE x),
       LAMBDA x : IF P0.isPlaying # P1.isPlaying THEN playPauseEffect(x, P1) ELSE x)

\* The component goes away.
unmount(V) == [setupCleanup(V) EXCEPT !.lastUrlRef = EmptyUrl, !.rapid = 0]

\* One commit of React: the component is given props P1 after P0.
Commit(P0, P1, V, env) ==
  IF ~P0.mounted /\ ~P1.mounted THEN V
  ELSE IF ~P1.mounted THEN unmount(V)
  ELSE IF ~P0.mounted THEN mount(V, P1, env)
  ELSE update(V, P0, P1, env)

(***************************************************************************)
(* AudioFeed.                                                              *)
(***************************************************************************)
\* NaN, as a number that no sum or remainder of the feed equals.
NaN == 0 - 1000

\* a % n of JavaScript: NaN for NaN and for n = 0, else the remainder that
\* has the sign of a.
JsMod(a, n) ==
  IF a = NaN \/ n = NaN \/ n = 0 THEN NaN
  ELSE IF a < 0 THEN 0 - ((0 - a) % n)
  ELSE a % n

\* a + b of JavaScript.
JsAdd(a, b) == IF a = NaN \/ b = NaN THEN NaN ELSE a + b

FeedState ==
  [snippets |-> snippets, liked |-> liked, playOrder |-> playOrder,
   currentIndex |-> currentIndex,
   isLoading |-> isLoading, isPlaying |-> isPlaying, autoplayEnabled |-> autoplayEnabled]

SetFeedState(F) ==
  /\ snippets' = F.snippets
  /\ liked' = F.liked
  /\ playOrder' = F.playOrder
  /\ currentIndex' = F.currentIndex
  /\ isLoading' = F.isLoading
  /\ isPlaying' = F.isPlaying
  /\ autoplayEnabled' = F.autoplayEnabled

\* Mutant: getCurrentTrack indexes the track list by the position itself.
getCurrentTrackUnordered(F) ==
  IF Len(F.snippets) = 0 \/ Len(F.playOrder) = 0 THEN EmptyUrl
  ELSE LET orderIndex == JsMod(F.currentIndex, Len(F.playOrder))
       IN IF orderIndex = NaN THEN EmptyUrl
          ELSE F.snippets[orderIndex + 1]

\* getCurrentTrack(): the URL of the current track, EmptyUrl for null and
\* for undefined.
getCurrentTrack(F) ==
  IF Len(F.snippets) = 0 \/ Len(F.playOrder) = 0 THEN EmptyUrl
  ELSE LET orderIndex == JsMod(F.currentIndex, Len(F.playOrder))
       IN IF orderIndex = NaN THEN EmptyUrl
          ELSE F.snippets[F.playOrder[orderIndex + 1] + 1]

\* What AudioFeed renders of AudioVisualizer.
PropsOf(F) ==
  LET url == getCurrentTrack(F)
  IN IF F.isLoading \/ url = EmptyUrl THEN NoProps
     ELSE [mounted |-> TRUE, audioUrl |-> url, isPlaying |-> F.isPlaying,
           preloadedAudio |-> IF MapHas(preloadedAudios, url)
                              THEN MapGet(preloadedAudios, url).audio ELSE NoAudioId,
           autoplayEnabled |-> F.autoplayEnabled,
           onEnded |-> <<F.autoplayEnabled, Len(F.snippets)>>]

\* The autoplay effect, run when one of its dependencies changed.
autoplayEffect(F0, F1) ==
  IF <<Len(F0.snippets), F0.autoplayEnabled>> = <<Len(F1.snippets), F1.autoplayEnabled>>
  THEN F1
  ELSE IF Len(F1.snippets) = 0 \/ ~F1.autoplayEnabled THEN F1
  ELSE [F1 EXCEPT !.isPlaying = TRUE]

\* AudioFeed renders with state F1: the commit of AudioVisualizer, the
\* effects of AudioFeed, and the render these cause in turn.
RenderFrom(F1, V0, env) ==
  \E P1 \in {PropsOf(F1)}, F2 \in {autoplayEffect(FeedState, F1)} :
    \E V1 \in {Commit(props, P1, V0, env)}, P2 \in {PropsOf(F2)} :
      \E V2 \in {IF V1.stuck THEN V1 ELSE Commit(P1, P2, V1, env)} :
        /\ SetFeedState(F2)
        /\ SetVizState(V2)
        /\ props' = P2

Render(F1, env) == RenderFrom(F1, VizState, env)

Mounted == setup.pc # "unmounted"
\* History: the task that ran last, by the name of its handler for the
\* handlers of AudioFeed ("feed" for the autoplay button and for the page
\* going away), and by its kind for the others ("media": a step of the
\* closure that is current, "stale": a step of a superseded closure).
Task(op) == [op |-> op, url |-> EmptyUrl, pre |-> NoPre]

Permutations0(n) ==
  {f \in [1..n -> 0..(n - 1)] : \A i, j \in 1..n : f[i] = f[j] => i = j}

\* Mutant: the shuffle copies order[j] to order[i] and leaves order[j].
SwapOverwriting(order, i, j) == [order EXCEPT ![i + 1] = order[j + 1]]

\* [order[i], order[j]] = [order[j], order[i]], on 0-based positions.
Swap(order, i, j) == [order EXCEPT ![i + 1] = order[j + 1], ![j + 1] = order[i + 1]]

\* The orders the loop of generatePlayOrder can have made of the orders in
\* `orders` once it has run for i, i - 1, ..., 1, with
\* j = Math.floor(Math.random() * (i + 1)) any of 0..i.
RECURSIVE ShuffleFrom(_, _)
ShuffleFrom(orders, i) ==
  IF i <= 0 THEN orders
  ELSE ShuffleFrom({Swap(order, i, j) : order \in orders, j \in 0..i}, i - 1)

\* generatePlayOrder(length): Array.from({ length }, (_, i) => i), shuffled.
generatePlayOrder(length) == ShuffleFrom({[i \in 1..length |-> i - 1]}, length - 1)

\* fetchSnippets() after the listing arrived, then the rest of
\* initializeAudio; React renders once for all of it.
FetchResolved(n, order, env) ==
  /\ Mounted /\ fetchPending
  /\ fetchPending' = FALSE
  /\ Render([FeedState EXCEPT !.playOrder = order,
                              !.snippets = [i \in 1..n |-> UrlPool[i]],
                              !.liked = [i \in 1..n |-> FALSE],
                              !.isLoading = FALSE,
                              !.autoplayEnabled = TRUE,
                              !.isPlaying = FALSE], env)
  /\ last' = Task("fetchResolved")
  /\ UNCHANGED preloadVars

\* Mutant: the catch of fetchSnippets leaves the loading flag set.
fetchCatchStillLoading(F) == F

\* The catch of fetchSnippets: setIsLoading(false).
fetchCatch(F) == [F EXCEPT !.isLoading = FALSE]

\* fetchSnippets() when the listing failed: the catch, then the rest of
\* initializeAudio.
FetchFailed(env) ==
  /\ Mounted /\ fetchPending
  /\ fetchPending' = FALSE
  /\ Render([fetchCatch(FeedState) EXCEPT !.autoplayEnabled = TRUE,
                                          !.isPlaying = FALSE], env)
  /\ last' = Task("fetchFailed")
  /\ UNCHANGED preloadVars

handlePlayPause(env) ==
  /\ Mounted /\ ~isLoading
  /\ Render([FeedState EXCEPT !.isPlaying = ~@], env)
  /\ last' = Task("handlePlayPause")
  /\ UNCHANGED <<preloadVars, fetchPending>>

\* (prev + 1) % snippets.length
nextIndex(F) == JsMod(JsAdd(F.currentIndex, 1), Len(F.snippets))

\* Mutant: handlePrevious does not take the remainder.
previousIndexNoWrap(F) == JsAdd(JsAdd(F.currentIndex, 0 - 1), Len(F.snippets))

\* (prev - 1 + snippets.length) % snippets.length
previousIndex(F) ==
  JsMod(JsAdd(JsAdd(F.currentIndex, 0 - 1), Len(F.snippets)), Len(F.snippets))

\* Mutant: navigation sets the index and leaves the play intent.
goToKeepingIntent(F, i) == [F EXCEPT !.currentIndex = i]

\* setCurrentIndex(...) and setIsPlaying(true) of handleNext and
\* handlePrevious.
goTo(F, i) == [F EXCEPT !.currentIndex = i, !.isPlaying = TRUE]

handleNext(env) ==
  /\ Mounted
  /\ Render(goTo(FeedState, nextIndex(FeedState)), env)
  /\ last' = Task("handleNext")
  /\ UNCHANGED <<preloadVars, fetchPending>>

handlePrevious(env) ==
  /\ Mounted
  /\ Render(goTo(FeedState, previousIndex(FeedState)), env)
  /\ last' = Task("handlePrevious")
  /\ UNCHANGED <<preloadVars, fetchPending>>

\* The autoplay button.
ToggleAutoplay(env) ==
  /\ Mounted /\ ~isLoading
  /\ Render([FeedState EXCEPT !.autoplayEnabled = ~@], env)
  /\ last' = Task("feed")
  /\ UNCHANGED <<preloadVars, fetchPending>>

\* Mutant: handleTrackEnd stops whatever autoplay is.
trackEndStopping(F, autoplay) == [F EXCEPT !.isPlaying = FALSE]

\* The body of handleTrackEnd, `autoplay` the autoplayEnabled of its closure.
trackEnd(F, autoplay) ==
  IF autoplay THEN goTo(F, nextIndex(F)) ELSE [F EXCEPT !.isPlaying = FALSE]

\* Playback of the element reached its end: the browser sets `paused` and
\* fires 'ended'.
ended(V) == [V EXCEPT !.audios[V.audioRef].paused = TRUE]

\* The element the controller holds plays to its end: onended, which is the
\* handleTrackEnd of the render that made the element.
handleTrackEnd(env) ==
  /\ Mounted
  /\ audioRef # NoAudioId
  /\ ~audios[audioRef].paused /\ ~audios[audioRef].loop
  /\ setup.pc \in {"ready", "buffer", "resume", "gesture", "gestureResume"}
  /\ RenderFrom(trackEnd(FeedState, props.autoplayEnabled), ended(VizState), env)
  /\ last' = Task("handleTrackEnd")
  /\ UNCHANGED <<preloadVars, fetchPending>>

\* AudioFeed is unmounted, and AudioVisualizer with it.
Teardown(env) ==
  /\ \E V \in {Commit(props, NoProps, VizState, env)} :
       SetVizState([V EXCEPT !.setup.pc = "unmounted"])
  /\ props' = NoProps
  /\ SetFeedState([snippets |-> <<>>, liked |-> <<>>, playOrder |-> <<>>,
                   currentIndex |-> 0, isLoading |-> TRUE, isPlaying |-> FALSE,
                   autoplayEnabled |-> FALSE])
  /\ fetchPending' = FALSE
  /\ UNCHANGED preloadVars

\* The page goes away.
Unmount(env) ==
  /\ Mounted
  /\ Teardown(env)
  /\ last' = Task("feed")

\* updated[currentIndex] is undefined: reading its `liked` throws.
NoSnippetAt(F) == F.currentIndex = NaN \/ F.currentIndex >= Len(F.snippets)

\* handleDoubleTap(): the updater of setSnippets flips `liked` of
\* updated[currentIndex].  When it throws, the render that runs it fails and
\* React unmounts the feed.
handleDoubleTap(env) ==
  /\ Mounted /\ ~isLoading
  /\ IF NoSnippetAt(FeedState)
     THEN Teardown(env)
     ELSE /\ Render([FeedState EXCEPT !.liked[currentIndex + 1] = ~@], env)
          /\ UNCHANGED <<preloadVars, fetchPending>>
  /\ last' = Task("handleDoubleTap")

\* A task of the visualizer: the closure that is current goes on from where
\* it awaits, to V.
Step(op, V) ==
  /\ \E x \in {V} : SetVizState(x)
  /\ last' = Task(op)
  /\ UNCHANGED <<preloadVars, feedVars, props>>

\* loadedmetadata; the second promise resolves at once when readyState >= 4.
LoadedMetadata(env) ==
  /\ setup.pc = "metadata"
  /\ Step("media",
          IF env.ready THEN afterLoad(VizState, props, env)
          ELSE [VizState EXCEPT !.setup.pc = "buffer"])

MetadataError(env) ==
  /\ setup.pc = "metadata"
  /\ Step("media", setupFailed(VizState, props, env))

CanPlayThrough(env) ==
  /\ setup.pc = "buffer"
  /\ Step("media", afterLoad(VizState, props, env))

BufferError(env) ==
  /\ setup.pc = "buffer"
  /\ Step("media", setupFailed(VizState, props, env))

\* await audioContextRef.current.resume() of line 747 resolves.
ResumeResolved(env) ==
  /\ setup.pc = "resume"
  /\ Step("media",
          play([VizState EXCEPT !.contexts[audioContextRef] = "running"], env))

ResumeRejected(env) ==
  /\ setup.pc = "resume"
  /\ Step("media", playFailed(VizState, props, env))

\* await playPromise resolves: retryCount = 0.
PlayResolved ==
  /\ setup.pc = "play"
  /\ Step("media", [VizState EXCEPT !.setup = [pc |-> "ready", retryCount |-> 0]])

\* The play promise is rejected with an error other than NotAllowedError.
PlayRejected(env) ==
  /\ setup.pc = "play"
  /\ Step("media", playFailed(VizState, props, env))

\* touchstart on window: resumePlayback of the closure that is current. Those
\* of superseded closures see isCurrentSetup false and do nothing.
Gesture ==
  /\ setup.pc = "gesture"
  /\ audioContextRef # NoCtx /\ audioRef # NoAudioId
  /\ Step("media", [VizState EXCEPT !.setup.pc = "gestureResume"])

GestureResumeResolved(env) ==
  /\ setup.pc = "gestureResume"
  /\ Step("media",
          IF env.allowed
          THEN [VizState EXCEPT !.contexts[audioContextRef] = "running",
                                !.audios[audioRef].paused = FALSE,
                                !.setup.pc = "gesturePlay"]
          ELSE [VizState EXCEPT !.contexts[audioContextRef] = "running",
                                !.setup.pc = "gesture"])

GestureResumeRejected ==
  /\ setup.pc = "gestureResume"
  /\ Step("media", [VizState EXCEPT !.setup.pc = "gesture"])

\* await audioRef.current.play() of resumePlayback resolves: the listeners go.
GesturePlayResolved ==
  /\ setup.pc = "gesturePlay"
  /\ Step("media", [VizState EXCEPT !.setup.pc = "ready"])

GesturePlayRejected ==
  /\ setup.pc = "gesturePlay"
  /\ Step("media", [VizState EXCEPT !.setup.pc = "gesture"])

\* audioRef.current.play() by a closure that is no longer current: on the
\* element the controller holds now, if any (a TypeError otherwise, caught).
stalePlay(V, env) ==
  IF V.audioRef # NoAudioId /\ env.allowed
  THEN [V EXCEPT !.audios[V.audioRef].paused = FALSE]
  ELSE V

\* The resume() of line 747 resolves for a closure that was superseded
\* while it awaited: nothing looks at isCurrentSetup before line 751.
StaleResumeResolved(env) ==
  /\ staleResume > 0
  /\ Step("stale",
          stalePlay([VizState EXCEPT !.staleResume = @ - 1], env))

\* It is rejected: the catch returns, isCurrentSetup being false.
StaleResumeRejected ==
  /\ staleResume > 0
  /\ Step("stale", [VizState EXCEPT !.staleResume = @ - 1])

\* The resume() of resumePlayback (line 767) resolves for a superseded
\* closure: play() as above, and its listeners go if that play() succeeds.
StaleGestureResumeResolved(env, played) ==
  /\ staleGestureResume > 0
  /\ played => audioRef # NoAudioId /\ env.allowed
  /\ Step("stale",
          stalePlay([VizState EXCEPT !.staleGestureResume = @ - 1,
                                     !.staleListeners = IF played THEN @ - 1 ELSE @], env))

StaleGestureResumeRejected ==
  /\ staleGestureResume > 0
  /\ Step("stale", [VizState EXCEPT !.staleGestureResume = @ - 1])

\* The resume() of the play/pause effect (line 820) resolves: play() on the
\* element the controller holds then.
PlayPauseResumeResolved(env) ==
  /\ playPauseResume > 0
  /\ Step("media",
          stalePlay([VizState EXCEPT !.playPauseResume = @ - 1], env))

PlayPauseResumeRejected ==
  /\ playPauseResume > 0
  /\ Step("media", [VizState EXCEPT !.playPauseResume = @ - 1])

\* An animation-frame callback runs: animate() again, for its chain.
Frame ==
  /\ pendingFrames > 0
  /\ Step("frame", animate([VizState EXCEPT !.pendingFrames = @ - 1]))

NextPlayback ==
  \/ \E n \in 0..NumTracks, env \in RenderEnvs :
       \E order \in generatePlayOrder(n) : FetchResolved(n, order, env)
  \/ \E env \in RenderEnvs : FetchFailed(env)
  \/ \E env \in RenderEnvs : handlePlayPause(env)
  \/ \E env \in RenderEnvs : handleNext(env)
  \/ \E env \in RenderEnvs : handlePrevious(env)
  \/ \E env \in RenderEnvs : ToggleAutoplay(env)
  \/ \E env \in RenderEnvs : handleTrackEnd(env)
  \/ \E env \in RenderEnvs : Unmount(env)
  \/ \E env \in Envs : LoadedMetadata(env)
  \/ \E env \in RenderEnvs : MetadataError(env)
  \/ \E env \in GraphEnvs : CanPlayThrough(env)
  \/ \E env \in RenderEnvs : BufferError(env)
  \/ \E env \in PlayEnvs : ResumeResolved(env)
  \/ \E env \in RenderEnvs : ResumeRejected(env)
  \/ PlayResolved
  \/ \E env \in RenderEnvs : PlayRejected(env)
  \/ Gesture
  \/ \E env \in PlayEnvs : GestureResumeResolved(env)
  \/ GestureResumeRejected
  \/ GesturePlayResolved
  \/ GesturePlayRejected
  \/ \E env \in PlayEnvs : StaleResumeResolved(env)
  \/ StaleResumeRejected
  \/ \E env \in PlayEnvs, played \in BOOLEAN : StaleGestureResumeResolved(env, played)
  \/ StaleGestureResumeRejected

SpecPlayback == Init /\ [][NextPlayback]_vars

(***************************************************************************)
(* Autoplay with a listener who does nothing and a media layer that does   *)
(* not fail: every load, resume() and play() that is awaited resolves in   *)
(* the end (weak fairness), and play() is allowed.                         *)
(***************************************************************************)
SuccessEnvs == {e \in Envs : e.allowed}

NextAutoplay ==
  \/ \E n \in 1..NumFeedTracks, env \in SuccessEnvs :
       \E order \in generatePlayOrder(n) : FetchResolved(n, order, env)
  \/ \E env \in SuccessEnvs : handleTrackEnd(env)
  \/ \E env \in SuccessEnvs : LoadedMetadata(env)
  \/ \E env \in SuccessEnvs \cap GraphEnvs : CanPlayThrough(env)
  \/ \E env \in SuccessEnvs \cap PlayEnvs : ResumeResolved(env)
  \/ PlayResolved

SpecAutoplay ==
  /\ Init
  /\ [][NextAutoplay]_vars
  /\ WF_vars(\E env \in SuccessEnvs : LoadedMetadata(env))
  /\ WF_vars(\E env \in SuccessEnvs \cap GraphEnvs : CanPlayThrough(env))
  /\ WF_vars(\E env \in SuccessEnvs \cap PlayEnvs : ResumeResolved(env))
  /\ WF_vars(PlayResolved)

(***************************************************************************)
(* The same with the render loop: the animation-frame callbacks run        *)
(* between the other tasks.                                                *)
(***************************************************************************)
NextRender ==
  \/ NextPlayback
  \/ Frame

SpecRender == Init /\ [][NextRender]_vars

(***************************************************************************)
(* The feed with a cache that is warmed: the page calls queuePreload for   *)
(* the first track of the listing, and the render hands the element of the *)
(* cache entry of the current track to AudioVisualizer.                    *)
(***************************************************************************)
SessionUrls == {UrlPool[1]}

\* The browser of these runs: a new context starts suspended and play() is
\* not allowed before a gesture; readyState is 4 or less.
SessionEnvs == {e \in Envs : e.suspended /\ ~e.allowed}

NextSession ==
  \/ \E url \in SessionUrls : Warm(url)
  \/ \E i \in 1..Len(workers) : PreloadCanPlay(i)
  \/ \E i \in 1..Len(workers) : PreloadError(i)
  \/ PreloadTimer
  \/ \E n \in 1..NumTracks, env \in SessionEnvs :
       \E order \in generatePlayOrder(n) : FetchResolved(n, order, env)
  \/ \E env \in SessionEnvs : handleNext(env)
  \/ \E env \in SessionEnvs : ToggleAutoplay(env)
  \/ \E env \in SessionEnvs : LoadedMetadata(env)
  \/ \E env \in SessionEnvs : CanPlayThrough(env)

SpecSession == Init /\ [][NextSession]_vars

(***************************************************************************)
(* AudioFeed taken alone: its handlers, with a media layer that never      *)
(* answers.  No handler of AudioFeed reads what AudioVisualizer holds, and *)
(* the one task the media layer starts in AudioFeed, handleTrackEnd, sets  *)
(* the state as handleNext or as setIsPlaying(false) does.                 *)
(***************************************************************************)
NextFeed ==
  \/ \E n \in 0..NumFeedTracks, env \in RenderEnvs :
       \E order \in generatePlayOrder(n) : FetchResolved(n, order, env)
  \/ \E env \in RenderEnvs : FetchFailed(env)
  \/ \E env \in RenderEnvs : handlePlayPause(env)
  \/ \E env \in RenderEnvs : handleNext(env)
  \/ \E env \in RenderEnvs : handlePrevious(env)
  \/ \E env \in RenderEnvs : ToggleAutoplay(env)
  \/ \E env \in RenderEnvs : handleDoubleTap(env)
  \/ \E env \in RenderEnvs : Unmount(env)

SpecFeed == Init /\ [][NextFeed]_vars

(***************************************************************************)
(* The feed sequencer.                                                     *)
(***************************************************************************)
\* The feed state with currentIndex set to i.
AtIndex(i) == [FeedState EXCEPT !.currentIndex = i]

\* The track list is not empty and currentIndex is one of 0..n-1.
InRange == Len(snippets) > 0 /\ currentIndex \in 0..(Len(snippets) - 1)

\* C12: for a non-empty track list and currentIndex in [0, n), the index
\* handlePrevious computes from the one handleNext computes, and the index
\* handleNext computes from the one handlePrevious computes, are both
\* currentIndex mod n.
C12_NextPreviousInverse ==
  InRange =>
    /\ previousIndex(AtIndex(nextIndex(FeedState))) = currentIndex % Len(snippets)
    /\ nextIndex(AtIndex(previousIndex(FeedState))) = currentIndex % Len(snippets)

\* handlePrevious wrapped around from the first position of three tracks.
C12_Witness ==
  /\ last.op = "handlePrevious"
  /\ Len(snippets) = 3
  /\ currentIndex = 2

\* C13: PlayOrder is a permutation of 0..n-1, n the length of the track list:
\* it has that length and every index is in it exactly once, whatever the
\* shuffle drew.
C13_PlayOrderIsPermutation == playOrder \in Permutations0(Len(snippets))

\* A fetch stored three tracks and an order the shuffle changed.
C13_Witness ==
  /\ last.op = "fetchResolved"
  /\ Len(snippets) = 3
  /\ playOrder = <<2, 0, 1>>

\* C15: handleNext and handlePrevious on an empty track list leave
\* currentIndex a non-negative integer.
C15_EmptyListKeepsIndexValid ==
  [][(last'.op \in {"handleNext", "handlePrevious"} /\ Len(snippets) = 0) =>
       currentIndex' \in Nat]_vars

\* C16: handleDoubleTap flips `liked` of the track the play order gives for
\* the current position, tracks[PlayOrder[currentIndex mod n]], and leaves
\* every other track, the list, the order and the position as they were.
C16_LikeTogglesCurrentTrack ==
  [][(last'.op = "handleDoubleTap" /\ InRange) =>
       /\ liked' = [liked EXCEPT
                      ![playOrder[(currentIndex % Len(snippets)) + 1] + 1] = ~@]
       /\ UNCHANGED <<snippets, playOrder, currentIndex>>]_vars

\* C17: after a fetch that succeeded currentIndex is 0.
C17_FetchResetsIndex ==
  [][last'.op = "fetchResolved" => currentIndex' = 0]_vars

\* C18: a fetch that failed leaves the track list, PlayOrder and
\* currentIndex as they were and clears the loading flag, and the feed
\* stays mounted (no exception escaped).
C18_FetchFailureKeepsState ==
  [][last'.op = "fetchFailed" =>
       /\ UNCHANGED <<snippets, playOrder, currentIndex>>
       /\ ~isLoading'
       /\ Mounted']_vars

\* The listing failed: the feed is mounted and no longer loading.
C18_Witness ==
  /\ last.op = "fetchFailed"
  /\ ~isLoading
  /\ Mounted

\* C19: after handleNext or handlePrevious on a non-empty track list the
\* play intent is true.
C19_NavigationPlays ==
  [][(last'.op \in {"handleNext", "handlePrevious"} /\ Len(snippets) > 0) =>
       isPlaying']_vars

\* handlePrevious ran on a list of two tracks and the feed plays.
C19_Witness ==
  /\ last.op = "handlePrevious"
  /\ Len(snippets) = 2
  /\ isPlaying

\* C26: whenever the track list is non-empty, currentIndex is an integer in
\* [0, n) and getCurrentTrack gives a track of the list, whatever
\* navigation, likes and fetch completion came before.
C26_IndexInRange ==
  Len(snippets) > 0 =>
    /\ currentIndex \in 0..(Len(snippets) - 1)
    /\ getCurrentTrack(FeedState) \in SeqRange(snippets)

\* C29: handleDoubleTap with an empty track list is a no-op: nothing is
\* thrown (the feed stays mounted) and the feed state, the empty list
\* included, is as it was.
C29_LikeOnEmptyListIsNoOp ==
  [][(last'.op = "handleDoubleTap" /\ Len(snippets) = 0) =>
       /\ Mounted'
       /\ UNCHANGED feedVars]_vars

\* The feed state after handleNext has set the index.
AfterNext(F) == [F EXCEPT !.currentIndex = nextIndex(F)]

\* C14: getCurrentTrack gives null when the track list or PlayOrder is empty
\* and tracks[PlayOrder[currentIndex mod length]] otherwise; for tracks
\* [A,B,C] with PlayOrder [1,0,2] at index 0 it gives B, and after one, two
\* and three handleNext it gives A, C and B again with the index back at 0.
C14_CurrentTrack ==
  /\ (Len(snippets) = 0 \/ Len(playOrder) = 0) => getCurrentTrack(FeedState) = EmptyUrl
  /\ (Len(snippets) > 0 /\ Len(playOrder) > 0 /\ currentIndex # NaN) =>
       getCurrentTrack(FeedState) =
         snippets[playOrder[(currentIndex % Len(playOrder)) + 1] + 1]
  /\ (Len(snippets) = 3 /\ playOrder = <<1, 0, 2>> /\ currentIndex = 0) =>
       /\ getCurrentTrack(FeedState) = snippets[2]
       /\ getCurrentTrack(AfterNext(FeedState)) = snippets[1]
       /\ AfterNext(FeedState).currentIndex = 1
       /\ getCurrentTrack(AfterNext(AfterNext(FeedState))) = snippets[3]
       /\ AfterNext(AfterNext(FeedState)).currentIndex = 2
       /\ getCurrentTrack(AfterNext(AfterNext(AfterNext(FeedState)))) = snippets[2]
       /\ AfterNext(AfterNext(AfterNext(FeedState))).currentIndex = 0

\* Three tracks in the order [1,0,2], and handleNext has wrapped the index
\* around to 0.
C14_Witness ==
  /\ last.op = "handleNext"
  /\ Len(snippets) = 3
  /\ playOrder = <<1, 0, 2>>
  /\ currentIndex = 0

(***************************************************************************)
(* The playback session.                                                   *)
(***************************************************************************)
OpenContexts == {c \in CtxIds : contexts[c] # "none"}

\* The elements that have a source and are not of the preload cache: those
\* the controller made or took and has not released.
LoadedElements ==
  {i \in AudioIds : /\ audios[i].src # <<>>
                    /\ i \notin CachedAudioIds
                    /\ i \notin {workers[k].audio : k \in 1..Len(workers)}}

\* setupAudio has run to its end for the closure that is current.
Established == setup.pc = "ready"

\* setupAudio of the closure that is current is past the creation of the
\* graph and has not given up.
GraphBuilt == setup.pc \in {"resume", "play", "ready"} \cup AwaitsGesture

\* C1: in every state at most one audio context is open (created and
\* close() not called on it), at most one source node exists and at most one
\* element is held by the controller, each of them the one the refs name;
\* and once the acquisition of the current track has built its graph there
\* is exactly one of each, the element bound to the URL of the track that is
\* current, whatever was switched through before.
C1_OneGraph ==
  /\ OpenContexts \subseteq {audioContextRef}
  /\ sourceNodes \subseteq {sourceNodeRef}
  /\ analyserNodes \subseteq {analyserRef}
  /\ LoadedElements \subseteq {audioRef}
  /\ GraphBuilt =>
       /\ OpenContexts = {audioContextRef}
       /\ sourceNodes = {<<audioRef, audioContextRef>>}
       /\ sourceNodeRef = <<audioRef, audioContextRef>>
       /\ analyserNodes = {audioContextRef}
       /\ LoadedElements = {audioRef}
       /\ audios[audioRef].src = CacheBuster(getCurrentTrack(FeedState))

\* Two track changes in a row each cut an acquisition short, and the
\* acquisition of the last track has run to its end.
C1_Witness == Established /\ rapid >= 2

\* C2: a step of a superseded closure changes nothing of the audio elements,
\* of the contexts, of the nodes or of the refs (it issues no play() on the
\* element the controller holds now).
C2_SupersededDoesNothing ==
  [][last'.op = "stale" =>
       UNCHANGED <<audios, contexts, sourceNodes, analyserNodes, audioRef,
                   audioContextRef, analyserRef, sourceNodeRef, setup>>]_vars

\* C3: once the controller has given up on a track it starts no acquisition
\* until the track changes, whatever play/pause or autoplay command arrives.
C3_GaveUpUntilTrackChange ==
  [][(setup.pc = "gaveUp" /\ lastUrlRef' = lastUrlRef) => setup'.pc = "gaveUp"]_vars

\* C4: when the retries are used up the session is torn down: no element,
\* no context, no analyser and no source node is held.
C4_GaveUpTornDown ==
  setup.pc = "gaveUp" =>
    /\ audioRef = NoAudioId
    /\ audioContextRef = NoCtx
    /\ analyserRef = NoCtx
    /\ sourceNodeRef = NoNode

\* C5: a play/pause command on an established session of the same track
\* leaves the element, the context, the analyser and the source node the
\* controller holds in place, and starts no acquisition.
C5_PlayPauseKeepsSession ==
  [][(last'.op = "handlePlayPause" /\ Established /\ props'.audioUrl = props.audioUrl) =>
       /\ UNCHANGED <<audioRef, audioContextRef, analyserRef, sourceNodeRef>>
       /\ setup'.pc = "ready"]_vars

\* The element the controller holds is bound to the track that is current
\* and plays, setupAudio having run to its end.
Playing ==
  /\ Established
  /\ audioRef # NoAudioId
  /\ audios[audioRef].src = CacheBuster(getCurrentTrack(FeedState))
  /\ ~audios[audioRef].paused

\* C27: with autoplay on and a track list that is not empty, one track
\* included, after the track that plays has ended by itself the next track
\* of the play order is acquired and plays in the end, the media layer
\* never failing.
C27_EndLeadsToPlaying ==
  (last.op = "handleTrackEnd" /\ autoplayEnabled) ~> Playing

\* The same for lists of two tracks and more.
EndLeadsToPlayingOfSeveral ==
  (last.op = "handleTrackEnd" /\ autoplayEnabled /\ Len(snippets) >= 2) ~> Playing

\* C21: no resumePlayback listener that a session put on window is still
\* there once the session is torn down by a track change, by another change
\* of the props or by unmount.
C21_NoListenerAfterTeardown == staleListeners = 0

\* C20: when the track ends by itself, with autoplay on the position
\* becomes (currentIndex + 1) mod n and the play intent is true; with
\* autoplay off the position stays and the play intent is false.
C20_TrackEnd ==
  [][last'.op = "handleTrackEnd" =>
       IF autoplayEnabled
       THEN /\ currentIndex' = (currentIndex + 1) % Len(snippets)
            /\ isPlaying'
       ELSE /\ currentIndex' = currentIndex
            /\ ~isPlaying']_vars

\* The second of two tracks ended with autoplay on: the position wrapped
\* around to the first and the feed plays.
C20_Witness ==
  /\ last.op = "handleTrackEnd"
  /\ Len(snippets) = 2
  /\ autoplayEnabled
  /\ currentIndex = 0
  /\ isPlaying

(***************************************************************************)
(* Claims about the cache and the controller together, checked under       *)
(* SpecSession.                                                            *)
(***************************************************************************)
\* C11: when the controller takes an element for a track, it takes the one
\* of the cache only from an entry that is loaded and not flagged errored;
\* for an entry still being prepared or flagged errored it makes a new one.
C11_TakesOnlyLoadedEntry ==
  [][(audioRef' # audioRef /\ audioRef' \in CachedAudioIds') =>
       \E e \in preloadedAudios' : e.audio = audioRef' /\ e.loaded /\ ~e.error]_vars

\* C23: whenever the controller holds an element, its loop flag is the
\* negation of autoplayEnabled, after the autoplay button was used while a
\* session exists and for an element that came from the cache as well.
C23_LoopIsNotAutoplay ==
  audioRef # NoAudioId => audios[audioRef].loop = ~autoplayEnabled

\* The autoplay button has just switched autoplay off while the controller
\* holds an element of the cache, which now loops.
C23_Witness ==
  /\ last.op = "feed"
  /\ ~autoplayEnabled
  /\ audioRef \in CachedAudioIds
  /\ audios[audioRef].loop

(***************************************************************************)
(* Claims about the render loop, checked under SpecRender.                 *)
(***************************************************************************)
\* C24: a tick of the render loop leaves the element, the context, the
\* analyser and the source node the controller holds, and what they are
\* connected to, as they were; it changes the scheduled frame only.
C24_FrameKeepsGraph ==
  [][last'.op = "frame" =>
       UNCHANGED <<audios, contexts, sourceNodes, analyserNodes, audioRef,
                   audioContextRef, analyserRef, sourceNodeRef, lastUrlRef, setup>>]_vars

\* A tick ran while the graph of a session is in place.
C24_Witness ==
  /\ last.op = "frame"
  /\ analyserRef # NoCtx
  /\ sourceNodeRef # NoNode
  /\ animationRef = "pending"

\* C25: at most one animation-frame callback is pending, whatever setups,
\* retries, changes of props and teardowns came before; there is none once
\* the session is torn down, until the next one has built its graph.
C25_OneFrameChain ==
  /\ pendingFrames <= 1
  /\ ~props.mounted => pendingFrames = 0
  /\ audioRef = NoAudioId => pendingFrames = 0

\* The render loop runs in a session that was set up again after a retry.
C25_Witness ==
  /\ last.op = "frame"
  /\ pendingFrames = 1
  /\ setup.retryCount >= 1

\* C28: tearing a session down leaves the cache and its elements alone:
\* after the controller has let go of its element, every entry of the cache
\* flagged loaded and not errored holds an element whose source is its URL.
C28_TeardownKeepsCache ==
  [][(audioRef # NoAudioId /\ audioRef' # audioRef) =>
       /\ preloadedAudios' = preloadedAudios
       /\ \A e \in preloadedAudios' :
            (e.loaded /\ ~e.error) => audios'[e.audio].src = <<e.url>>]_vars

(***************************************************************************)
(* Claims about the preload cache manager, checked under SpecPreload.      *)
(***************************************************************************)
Errored(m, url) == MapHas(m, url) /\ MapGet(m, url).error
LoadingWorkers(w) == {i \in 1..Len(w) : w[i].state = "loading"}

\* C6: after any sequence of warm calls, preparation successes and failures,
\* the preload cache holds at most 3 entries and at most one entry per URL.
C6_CacheBounded ==
  /\ MapSize(preloadedAudios) <= maxPreloadCount
  /\ \A e1, e2 \in preloadedAudios : e1.url = e2.url => e1 = e2

\* C6 happens: the cache is full, one of its entries has failed, and a warm
\* call for a further URL has just run.
C6_Witness ==
  /\ MapSize(preloadedAudios) = maxPreloadCount
  /\ \E e \in preloadedAudios : e.error
  /\ last.op = "queuePreload" /\ last.url \in TrackUrls
  /\ last.pre.full /\ ~last.pre.cached /\ ~last.pre.queued

\* C7: a URL whose preparation fails is prepared again exactly once; when the
\* preparation that replaced an errored entry fails too, the URL is no longer
\* in the queue and its entry stays in the cache flagged errored.
C7_RetriedExactlyOnce ==
  (last.op = "preloadError" /\ last.pre.retry)
    => /\ last.url \notin SeqRange(preloadQueue)
       /\ Errored(preloadedAudios, last.url)

\* C8: at most one preparation is in flight; a warm call or a retry timer
\* that runs while one is in flight starts no second one (it changes neither
\* the workers, nor the cache, nor any audio element).
C8_OnePreparation ==
  [][/\ Len(workers') <= 1
     /\ (isPreloading /\ last'.op \in {"queuePreload", "preloadTimer"})
          => /\ workers' = workers
             /\ preloadedAudios' = preloadedAudios
             /\ audios' = audios]_vars

\* C8 happens: while a preparation is loading, a warm call for another URL
\* has just appended it to the queue.
C8_Witness ==
  /\ isPreloading /\ Len(workers) = 1 /\ workers[1].state = "loading"
  /\ last.op = "queuePreload" /\ last.url \in TrackUrls
  /\ last.url # workers[1].url
  /\ ~last.pre.queued /\ ~last.pre.cached
  /\ last.url \in SeqRange(preloadQueue)

\* The case of C9: warm(url) for a track URL that is neither cached nor queued,
\* with the cache at capacity.
C9_Case ==
  /\ last'.op = "queuePreload" /\ last'.url \in TrackUrls
  /\ AtCapacity(preloadedAudios)
  /\ ~MapHas(preloadedAudios, last'.url)
  /\ last'.url \notin SeqRange(preloadQueue)

\* C9 as stated: with the cache at 3 entries, warm(url) for a URL neither
\* cached nor queued is a no-op: the URL is not appended to the queue, no
\* preparation is started and the cache is unchanged.
C9_WarmAtCapacityIsNoOp ==
  [][C9_Case => /\ preloadQueue' = preloadQueue
                /\ workers' = workers
                /\ preloadedAudios' = preloadedAudios]_vars

\* C9 as amended: with the cache at 3 entries, warm(url) for a URL neither
\* cached nor queued leaves the cache and every audio element unchanged and
\* starts no preparation, but it appends the URL to the queue; when the worker
\* reaches a URL with the cache at capacity it drops the head of the queue
\* without touching the cache.
C9_WarmAtCapacity ==
  [][/\ C9_Case => /\ preloadedAudios' = preloadedAudios
                   /\ audios' = audios
                   /\ preloadQueue' = Append(preloadQueue, last'.url)
                   /\ LoadingWorkers(workers') = LoadingWorkers(workers)
     /\ (last'.op = "preloadReturned" /\ AtCapacity(preloadedAudios))
          => /\ preloadedAudios' = preloadedAudios
             /\ audios' = audios
             /\ preloadQueue' = Tail(preloadQueue)]_vars

\* C9 happens: a warm call at capacity for a URL neither cached nor queued has
\* just run, and the URL is now in the queue.
C9_Witness ==
  /\ last.op = "queuePreload" /\ last.url \in TrackUrls
  /\ last.pre.full /\ ~last.pre.cached /\ ~last.pre.queued
  /\ last.url \in SeqRange(preloadQueue)
  /\ MapSize(preloadedAudios) = maxPreloadCount

\* C10 as stated: below capacity, warm(url) appends url to the queue if and
\* only if url is not a placeholder, not already queued and not in the cache
\* with an unerrored entry.
C10_WarmAppendsIff ==
  [][(last'.op = "queuePreload" /\ ~AtCapacity(preloadedAudios))
       => ((preloadQueue' = Append(preloadQueue, last'.url))
            <=> /\ ~IncludesPlaceholder(last'.url)
                /\ last'.url \notin SeqRange(preloadQueue)
                /\ ~AlreadyPreloaded(preloadedAudios, last'.url))]_vars

\* C10 as amended: below capacity, warm(url) appends url to the queue if and
\* only if url is non-empty, not a placeholder, not already queued and not in
\* the cache with an unerrored entry; below capacity a URL whose entry is
\* flagged errored is always still queued, and a warm call for a URL whose
\* entry is errored and that is not queued (at capacity) does not enqueue it.
C10_WarmAppendsIffNonEmpty ==
  [][/\ (last'.op = "queuePreload" /\ ~AtCapacity(preloadedAudios))
          => ((preloadQueue' = Append(preloadQueue, last'.url))
               <=> /\ last'.url # EmptyUrl
                   /\ ~IncludesPlaceholder(last'.url)
                   /\ last'.url \notin SeqRange(preloadQueue)
                   /\ ~AlreadyPreloaded(preloadedAudios, last'.url))
     /\ ~AtCapacity(preloadedAudios')
          => \A e \in preloadedAudios' : e.error => e.url \in SeqRange(preloadQueue')
     /\ (/\ last'.op = "queuePreload"
         /\ Errored(preloadedAudios, last'.url)
         /\ last'.url \notin SeqRange(preloadQueue))
          => preloadQueue' = preloadQueue]_vars

\* C10 happens: below capacity, with an errored entry waiting in the queue, a
\* warm call for a URL neither cached nor queued has just appended it.
C10_Witness ==
  /\ last.op = "queuePreload" /\ last.url \in TrackUrls
  /\ ~last.pre.full /\ ~last.pre.cached /\ ~last.pre.queued
  /\ last.url \in SeqRange(preloadQueue)
  /\ \E e \in preloadedAudios : e.error /\ e.url # last.url

\* C30: the preload queue holds no URL twice, after any sequence of warm
\* calls, preparation successes, failures and re-appends to the tail.
C30_QueueNoDuplicates ==
  \A i, j \in 1..Len(preloadQueue) : preloadQueue[i] = preloadQueue[j] => i = j

\* A preparation has just failed with another URL queued behind it: the
\* failed URL is re-appended and is now the last of the queue.
C30_Witness ==
  /\ last.op = "preloadError"
  /\ Len(preloadQueue) >= 2
  /\ preloadQueue[Len(preloadQueue)] = last.url

\* The entry of the URL is loaded.
Loaded(url) == MapHas(preloadedAudios, url) /\ MapGet(preloadedAudios, url).loaded

\* C22: while the cache stays below capacity and every preparation ends, a
\* URL whose preparation always fails does not starve the queue: every
\* healthy URL that is queued is prepared in the end and its entry becomes
\* loaded.
C22_NoStarvation ==
  [](~AtCapacity(preloadedAudios)) =>
    \A url \in HealthyUrls : (url \in SeqRange(preloadQueue)) ~> Loaded(url)

\* A healthy URL is loaded that was queued behind the broken one, whose
\* entry is flagged errored and which waits at the tail for its next turn.
C22_Witness ==
  /\ \E url \in HealthyUrls : Loaded(url)
  /\ Errored(preloadedAudios, BrokenUrl)
  /\ preloadQueue # <<>>
  /\ preloadQueue[Len(preloadQueue)] = BrokenUrl
  /\ ~AtCapacity(preloadedAudios)

====
